---------------------------- MODULE Spec2Model ----------------------------
(***************************************************************************)
(* Request execution of the Board Game Geek API client (src/src/api.rs):   *)
(* BoardGameGeekApi::send_request, the bounded retry loop for the 202      *)
(* (Accepted) status, and BoardGameGeekApi::execute_request, which reads   *)
(* the body of the response and decodes it as the target type or as the    *)
(* API error envelope (ApiXmlErrors).                                      *)
(*                                                                         *)
(* A logical call is one invocation of send_request (the tests call it     *)
(* directly) or of execute_request (the endpoints call it).  Each call is  *)
(* a future: it runs from one suspension point (.await) to the next in one *)
(* step.  The suspension points are the send (line 99), the sleep          *)
(* (line 113) and the read of the body (line 67).                          *)
(***************************************************************************)
EXTENDS Integers, Sequences, FiniteSets, TLC

\* Number of logical calls that run on the same BoardGameGeekApi object.
NumCalls == 2

Calls == 1..NumCalls

\* The call observed by the single-call specification Spec.
MainCall == CHOOSE c \in Calls : \A d \in Calls : c <= d

\* reqwest::StatusCode::ACCEPTED (api.rs:103).
ACCEPTED == 202

\* The bound of `retries >= 4` (api.rs:105).
MaxRetries == 4

\* The base delay of `Duration::from_millis(200 * backoff_multiplier)` (api.rs:112).
BaseDelayMs == 200

\* The status codes the server answers with in the model: success codes,
\* the accepted code, a 3xx code and the borders of the 4xx/5xx ranges.
Statuses == {200, ACCEPTED, 204, 304, 400, 404, 500, 599}

\* BoardGameGeekApi::BASE_URL (api.rs:26).
BASE_URL == "https://boardgamegeek.com/xmlapi2"

\* The endpoints and queries the callers build requests from.
Endpoints == {"some_endpoint", "collection"}
Queries == { <<>>, << <<"username", "someone">> >> }

\* The response bodies of the model, by the shapes they decode as.
\*   items_xml   decodes as the target type only
\*   errors_xml  decodes as ApiXmlErrors only
\*   lenient_xml decodes as the target type and as ApiXmlErrors
\*   hello there decodes as neither
Bodies == {"items_xml", "errors_xml", "lenient_xml", "hello there"}
TargetBodies == {"items_xml", "lenient_xml"}
EnvelopeBodies == {"errors_xml", "lenient_xml"}

VARIABLES
    pc,         \* pc[c]: where call c is: idle, sending, sleeping, reading, done
                \* (panicked: the expect of api.rs:98 failed; dropped: the
                \* caller dropped the future)
    entry,      \* entry[c]: the function the caller invoked: send_request or execute_request
    request,    \* request[c]: the RequestBuilder handed to the call
    retries,    \* retries[k]: the retry counter held in cell k (api.rs:95)
    response,   \* response[c]: the Response the call holds, or NoResponse
    wire,       \* wire[c]: the requests the call has put on the network, in order
    log,        \* log[c]: what the call did, in order: send, resp, fail, sleep, woke
    response_text, \* response_text[c]: the body read by text() (api.rs:67), or NoText
    decodes,    \* decodes[c]: the from_str calls of the call, in order
    outcome     \* outcome[c]: the values the call returned to its caller, in order

vars == <<pc, entry, request, retries, response, wire, log, response_text, decodes, outcome>>

NoRequest == [url |-> "", query |-> <<>>, body |-> "none"]
NoResponse == [attempt |-> -1, status |-> 0]
NoText == "<unread>"
NoValue == [kind |-> "None"]

--------------------------------------------------------------------------
(* Pure functions *)

RECURSIVE Pow2(_)
\* 2_u64.pow(n) (api.rs:110); n <= 4 in every use, far below the u64 range.
Pow2(n) == IF n = 0 THEN 1 ELSE 2 * Pow2(n - 1)

\* A backoff that grows by 200 ms per retry instead of doubling.
BackoffDelayLinear(r) == BaseDelayMs * (r + 1)

\* `200 * backoff_multiplier` with backoff_multiplier = 2^retries (api.rs:110-112).
BackoffDelay(r) == BaseDelayMs * Pow2(r)

\* build_request: GET base_url/endpoint with the query, no body (api.rs:50-58).
build_request(endpoint, query) ==
    [url |-> BASE_URL \o "/" \o endpoint, query |-> query, body |-> "none"]

\* A clone that keeps the URL and loses the query parameters.
try_cloneNoQuery(req) ==
    IF req.body = "stream" THEN [some |-> FALSE, req |-> NoRequest]
    ELSE [some |-> TRUE, req |-> [req EXCEPT !.query = <<>>]]

\* A clone that fails for every request.
try_cloneNone(req) == [some |-> FALSE, req |-> NoRequest]

\* RequestBuilder::try_clone: None when the body is a stream, else a copy.
try_clone(req) ==
    IF req.body = "stream" THEN [some |-> FALSE, req |-> NoRequest]
    ELSE [some |-> TRUE, req |-> req]

\* The client-error range started at 300: a redirect status is an error.
is_client_errorFrom300(s) == s >= 300 /\ s <= 499

\* StatusCode::is_client_error / is_server_error, as used by error_for_status.
is_client_error(s) == s >= 400 /\ s <= 499
is_server_error(s) == s >= 500 /\ s <= 599

\* The error values of crate::Error that api.rs constructs.
HttpError(cause, n, s) == [kind |-> "HttpError", cause |-> cause, attempt |-> n, status |-> s]
\* The max-retries error that reports the attempts made, one more than the
\* retries.
MaxRetryErrorAttempts(r) == [kind |-> "MaxRetryError", retries |-> r + 1]

MaxRetryError(r) == [kind |-> "MaxRetryError", retries |-> r]
UnexpectedResponseError(e) == [kind |-> "UnexpectedResponseError", diag |-> e]

\* error_for_status with the server errors forgotten: only 4xx is an error.
error_for_statusClientOnly(resp) ==
    IF is_client_error(resp.status)
    THEN [ok |-> FALSE, val |-> HttpError("status", resp.attempt, resp.status)]
    ELSE [ok |-> TRUE, val |-> [kind |-> "Response", attempt |-> resp.attempt,
                                status |-> resp.status]]

\* Response::error_for_status, wrapped as in api.rs:116-119.
error_for_status(resp) ==
    IF is_client_error(resp.status) \/ is_server_error(resp.status)
    THEN [ok |-> FALSE, val |-> HttpError("status", resp.attempt, resp.status)]
    ELSE [ok |-> TRUE, val |-> [kind |-> "Response", attempt |-> resp.attempt,
                                status |-> resp.status]]

\* serde_xml_rs::from_str::<T> on the response text (api.rs:69).
from_str_target(text) ==
    IF text \in TargetBodies
    THEN [ok |-> TRUE, val |-> [kind |-> "Typed", from |-> text]]
    ELSE [ok |-> FALSE, val |-> [decoder |-> "target", text |-> text]]

\* serde_xml_rs::from_str::<ApiXmlErrors> on the response text (api.rs:76).
from_str_envelope(text) ==
    IF text \in EnvelopeBodies
    THEN [ok |-> TRUE, val |-> [kind |-> "ApiXmlErrors", from |-> text]]
    ELSE [ok |-> FALSE, val |-> [decoder |-> "ApiXmlErrors", text |-> text]]

\* impl From<ApiXmlErrors> for Error, used by `api_error.into()` (api.rs:78):
\* the Business/API error derived from the envelope.
ApiErrorFrom(envelope) == [kind |-> "ApiError", envelope |-> envelope]

\* impl From<reqwest::Error> for Error, used by `?` on text() (api.rs:67).
FromReqwestError(n, s) == HttpError("body", n, s)

\* The decode that makes both from_str calls up front and matches on the
\* two results afterwards.
DecodeBodyEager(text) ==
    LET parse_result == from_str_target(text)
        api_error == from_str_envelope(text)
    IN  IF parse_result.ok
        THEN [ok |-> TRUE, val |-> parse_result.val,
              tried |-> <<"target", "ApiXmlErrors">>]
        ELSE IF api_error.ok
        THEN [ok |-> FALSE, val |-> ApiErrorFrom(api_error.val),
              tried |-> <<"target", "ApiXmlErrors">>]
        ELSE [ok |-> FALSE, val |-> UnexpectedResponseError(parse_result.val),
              tried |-> <<"target", "ApiXmlErrors">>]

\* The decode without the second step: a failed target decode is reported
\* as an unexpected response without looking for the error envelope.
DecodeBodyNoEnvelope(text) ==
    LET parse_result == from_str_target(text) IN
    IF parse_result.ok
    THEN [ok |-> TRUE, val |-> parse_result.val, tried |-> <<"target">>]
    ELSE [ok |-> FALSE, val |-> UnexpectedResponseError(parse_result.val),
          tried |-> <<"target">>]

\* The decode that reports the error of the envelope decode (the inner
\* Err(e) of api.rs:81) instead of the error of the target decode.
DecodeBodyInnerError(text) ==
    LET parse_result == from_str_target(text) IN
    IF parse_result.ok
    THEN [ok |-> TRUE, val |-> parse_result.val, tried |-> <<"target">>]
    ELSE LET api_error == from_str_envelope(text) IN
         IF api_error.ok
         THEN [ok |-> FALSE, val |-> ApiErrorFrom(api_error.val),
               tried |-> <<"target", "ApiXmlErrors">>]
         ELSE [ok |-> FALSE, val |-> UnexpectedResponseError(api_error.val),
               tried |-> <<"target", "ApiXmlErrors">>]

\* The decode that looks for the error envelope first and for the target
\* type only when the body is no envelope.
DecodeBodyEnvelopeFirst(text) ==
    LET api_error == from_str_envelope(text) IN
    IF api_error.ok
    THEN [ok |-> FALSE, val |-> ApiErrorFrom(api_error.val), tried |-> <<"ApiXmlErrors">>]
    ELSE LET parse_result == from_str_target(text) IN
         IF parse_result.ok
         THEN [ok |-> TRUE, val |-> parse_result.val,
               tried |-> <<"ApiXmlErrors", "target">>]
         ELSE [ok |-> FALSE, val |-> UnexpectedResponseError(parse_result.val),
               tried |-> <<"ApiXmlErrors", "target">>]

\* The match on parse_result of execute_request (api.rs:69-84): the value
\* returned and the from_str calls made, in order.
DecodeBody(text) ==
    LET parse_result == from_str_target(text) IN
    IF parse_result.ok
    THEN [ok |-> TRUE, val |-> parse_result.val, tried |-> <<"target">>]
    ELSE LET api_error == from_str_envelope(text) IN
         IF api_error.ok
         THEN [ok |-> FALSE, val |-> ApiErrorFrom(api_error.val),
               tried |-> <<"target", "ApiXmlErrors">>]
         ELSE [ok |-> FALSE, val |-> UnexpectedResponseError(parse_result.val),
               tried |-> <<"target", "ApiXmlErrors">>]

\* One retry counter for the API object, shared by all its calls.
RetryCellShared(c) == MainCall

\* The cell that holds the retry counter of call c: `let mut retries` is a
\* local of send_request, moved into the future of the call (api.rs:95-96).
RetryCell(c) == c

\* A server error 500 taken for "not ready yet" as well.
IsAcceptedOr500(s) == s = ACCEPTED \/ s = 500

\* `response.status() == reqwest::StatusCode::ACCEPTED` (api.rs:103).
IsAccepted(s) == s = ACCEPTED

\* The bound compared with > instead of >=: one attempt too many.
RetriesExhaustedLate(r) == r > MaxRetries

\* The loop without its bound: a 202 is always retried.
RetriesExhaustedNever(r) == FALSE

\* `retries >= 4` (api.rs:105).
RetriesExhausted(r) == r >= MaxRetries

\* A failed send handled like an accepted response: back off and retry.
OnSendErrorRetry(r, n) ==
    IF RetriesExhausted(r)
    THEN [brk |-> TRUE, ok |-> FALSE, val |-> MaxRetryError(r),
          retries |-> r, delay |-> 0]
    ELSE [brk |-> FALSE, ok |-> FALSE, val |-> NoValue,
          retries |-> r + 1, delay |-> BackoffDelay(r)]

\* One iteration of the loop after `send().await` failed (api.rs:101).
OnSendError(r, n) ==
    [brk |-> TRUE, ok |-> FALSE, val |-> HttpError("send", n, 0),
     retries |-> r, delay |-> 0]

\* The loop body with the bound tested before the status: the fifth
\* response ends the call with the max-retries error whatever it is.
OnResponseBoundFirst(r, resp) ==
    IF RetriesExhausted(r)
    THEN [brk |-> TRUE, ok |-> FALSE, val |-> MaxRetryError(r),
          retries |-> r, delay |-> 0]
    ELSE IF IsAccepted(resp.status)
    THEN [brk |-> FALSE, ok |-> FALSE, val |-> NoValue,
          retries |-> r + 1, delay |-> BackoffDelay(r)]
    ELSE LET res == error_for_status(resp) IN
         [brk |-> TRUE, ok |-> res.ok, val |-> res.val, retries |-> r, delay |-> 0]

\* One iteration of the loop after `send().await` gave a response
\* (api.rs:103-119): break with a result, or sleep and continue.
OnResponse(r, resp) ==
    IF IsAccepted(resp.status)
    THEN IF RetriesExhausted(r)
         THEN [brk |-> TRUE, ok |-> FALSE, val |-> MaxRetryError(r),
               retries |-> r, delay |-> 0]
         ELSE [brk |-> FALSE, ok |-> FALSE, val |-> NoValue,
               retries |-> r + 1, delay |-> BackoffDelay(r)]
    ELSE LET res == error_for_status(resp) IN
         [brk |-> TRUE, ok |-> res.ok, val |-> res.val, retries |-> r, delay |-> 0]

--------------------------------------------------------------------------
(* The log of a call *)

Ev(kind, arg) == [ev |-> kind, arg |-> arg]

EventsOf(c, kind) == SelectSeq(log[c], LAMBDA e : e.ev = kind)

\* The number of requests call c has sent.
Attempts(c) == Len(wire[c])

\* The delays call c has slept (or is sleeping), in order.
Sleeps(c) == [i \in 1..Len(EventsOf(c, "sleep")) |-> EventsOf(c, "sleep")[i].arg]

\* The statuses of the responses call c has received, in order.
Responses(c) == [i \in 1..Len(EventsOf(c, "resp")) |-> EventsOf(c, "resp")[i].arg]

--------------------------------------------------------------------------
(* Initial state *)

Init ==
    /\ pc = [c \in Calls |-> "idle"]
    /\ entry = [c \in Calls |-> "none"]
    /\ request = [c \in Calls |-> NoRequest]
    /\ retries = [c \in Calls |-> 0]
    /\ response = [c \in Calls |-> NoResponse]
    /\ wire = [c \in Calls |-> <<>>]
    /\ log = [c \in Calls |-> <<>>]
    /\ response_text = [c \in Calls |-> NoText]
    /\ decodes = [c \in Calls |-> <<>>]
    /\ outcome = [c \in Calls |-> <<>>]

--------------------------------------------------------------------------
(* Actions *)

\* The caller invokes send_request or execute_request with a request:
\* `retries` is set to 0 (api.rs:95) and the first iteration of the loop
\* clones the request and sends the clone (api.rs:98-99).
Call(c, fn, req) ==
    /\ pc[c] = "idle"
    /\ entry' = [entry EXCEPT ![c] = fn]
    /\ request' = [request EXCEPT ![c] = req]
    /\ retries' = [retries EXCEPT ![RetryCell(c)] = 0]
    /\ LET request_clone == try_clone(req) IN
       IF request_clone.some
       THEN /\ wire' = [wire EXCEPT ![c] = Append(@, request_clone.req)]
            /\ log' = [log EXCEPT ![c] = Append(@, Ev("send", 0))]
            /\ pc' = [pc EXCEPT ![c] = "sending"]
       ELSE \* expect("Couldn't clone request") panics
            /\ pc' = [pc EXCEPT ![c] = "panicked"]
            /\ UNCHANGED <<wire, log>>
    /\ UNCHANGED <<response, response_text, decodes, outcome>>

\* send_request ends with the result `res` (the value of the loop's break).
\* The tests await it directly; execute_request applies `?` to it
\* (api.rs:66) and, on Ok, goes on to await response.text() (api.rs:67).
SendRequestReturns(c, res) ==
    IF entry[c] = "execute_request" /\ res.ok
    THEN /\ pc' = [pc EXCEPT ![c] = "reading"]
         /\ response' = [response EXCEPT
                            ![c] = [attempt |-> res.val.attempt, status |-> res.val.status]]
         /\ UNCHANGED outcome
    ELSE /\ pc' = [pc EXCEPT ![c] = "done"]
         /\ outcome' = [outcome EXCEPT ![c] = Append(@, res.val)]
         /\ UNCHANGED response

\* What the loop does with the value `step` of one iteration: break with
\* the result, or sleep for the delay (api.rs:113) before the next one.
LoopStep(c, step, seen) ==
    /\ retries' = [retries EXCEPT ![RetryCell(c)] = step.retries]
    /\ IF step.brk
       THEN /\ log' = [log EXCEPT ![c] = Append(@, seen)]
            /\ SendRequestReturns(c, step)
       ELSE /\ log' = [log EXCEPT ![c] = @ \o <<seen, Ev("sleep", step.delay)>>]
            /\ pc' = [pc EXCEPT ![c] = "sleeping"]
            /\ UNCHANGED <<response, outcome>>
    /\ UNCHANGED <<entry, request, wire, response_text, decodes>>

\* `request_clone.send().await` completes with a response of status s.
RecvResponse(c, s) ==
    /\ pc[c] = "sending"
    /\ LET resp == [attempt |-> Attempts(c) - 1, status |-> s] IN
       LoopStep(c, OnResponse(retries[RetryCell(c)], resp), Ev("resp", s))

\* `request_clone.send().await` completes with a transport error.
RecvError(c) ==
    /\ pc[c] = "sending"
    /\ LoopStep(c, OnSendError(retries[RetryCell(c)], Attempts(c) - 1), Ev("fail", 0))

\* `sleep(delay).await` completes; `continue` starts the next iteration,
\* which clones the request and sends the clone (api.rs:113-114, 98-99).
Wake(c) ==
    /\ pc[c] = "sleeping"
    /\ LET request_clone == try_clone(request[c]) IN
       IF request_clone.some
       THEN /\ wire' = [wire EXCEPT ![c] = Append(@, request_clone.req)]
            /\ log' = [log EXCEPT ![c] = @ \o <<Ev("woke", 0), Ev("send", Attempts(c))>>]
            /\ pc' = [pc EXCEPT ![c] = "sending"]
       ELSE /\ pc' = [pc EXCEPT ![c] = "panicked"]
            /\ log' = [log EXCEPT ![c] = Append(@, Ev("woke", 0))]
            /\ UNCHANGED wire
    /\ UNCHANGED <<entry, request, retries, response, response_text, decodes, outcome>>

\* `response.text().await` completes with the body; execute_request
\* decodes it and returns (api.rs:67-84).
BodyRead(c, text) ==
    /\ pc[c] = "reading"
    /\ response_text' = [response_text EXCEPT ![c] = text]
    /\ LET d == DecodeBody(text) IN
       /\ decodes' = [decodes EXCEPT ![c] = @ \o d.tried]
       /\ outcome' = [outcome EXCEPT ![c] = Append(@, d.val)]
    /\ log' = [log EXCEPT ![c] = Append(@, Ev("text", 0))]
    /\ pc' = [pc EXCEPT ![c] = "done"]
    /\ UNCHANGED <<entry, request, retries, response, wire>>

\* `response.text().await` fails; `?` returns the error (api.rs:67).
BodyError(c) ==
    /\ pc[c] = "reading"
    /\ outcome' = [outcome EXCEPT
                      ![c] = Append(@, FromReqwestError(response[c].attempt, response[c].status))]
    /\ log' = [log EXCEPT ![c] = Append(@, Ev("textfail", 0))]
    /\ pc' = [pc EXCEPT ![c] = "done"]
    /\ UNCHANGED <<entry, request, retries, response, wire, response_text, decodes>>

--------------------------------------------------------------------------
(* Specifications *)

\* One logical call, through send_request or through execute_request.
Next ==
    \/ \E fn \in {"send_request", "execute_request"}, ep \in Endpoints, q \in Queries :
          Call(MainCall, fn, build_request(ep, q))
    \/ \E s \in Statuses : RecvResponse(MainCall, s)
    \/ RecvError(MainCall)
    \/ Wake(MainCall)
    \/ \E text \in Bodies : BodyRead(MainCall, text)
    \/ BodyError(MainCall)

Spec == Init /\ [][Next]_vars

\* A drop that does not stop the work of the call, as if the loop ran in a
\* detached task: the call stays where it is and goes on.
DropDetached(c) ==
    /\ pc[c] \in {"sending", "sleeping", "reading"}
    /\ EventsOf(c, "drop") = <<>>
    /\ log' = [log EXCEPT ![c] = Append(@, Ev("drop", 0))]
    /\ UNCHANGED <<pc, entry, request, retries, response, wire, response_text,
                   decodes, outcome>>

\* The caller drops the future of call c while it is suspended at an
\* .await: in the send (api.rs:99), in the sleep (api.rs:113) or in the
\* read of the body (api.rs:67).  The future is never polled again.
Drop(c) ==
    /\ pc[c] \in {"sending", "sleeping", "reading"}
    /\ pc' = [pc EXCEPT ![c] = "dropped"]
    /\ log' = [log EXCEPT ![c] = Append(@, Ev("drop", 0))]
    /\ UNCHANGED <<entry, request, retries, response, wire, response_text,
                   decodes, outcome>>

\* One logical call that its caller may cancel.
NextCancel ==
    \/ Next
    \/ Drop(MainCall)

SpecCancel == Init /\ [][NextCancel]_vars

\* The send of call c completes, with a response or with an error.
SendCompletes(c) == (\E s \in Statuses : RecvResponse(c, s)) \/ RecvError(c)

\* One logical call whose sends and sleeps complete: the runtime polls the
\* future again when the response or the error arrives and when the timer
\* of the sleep fires.
SpecLive ==
    /\ Init
    /\ [][Next]_vars
    /\ WF_vars(SendCompletes(MainCall))
    /\ WF_vars(Wake(MainCall))

\* NumCalls logical calls of send_request on the same API object, as the
\* tests make them, interleaved at their suspension points.
NextConc ==
    \/ \E c \in Calls : Call(c, "send_request", build_request("some_endpoint", <<>>))
    \/ \E c \in Calls, s \in Statuses : RecvResponse(c, s)
    \/ \E c \in Calls : RecvError(c)
    \/ \E c \in Calls : Wake(c)

SpecConc == Init /\ [][NextConc]_vars

--------------------------------------------------------------------------
(* Properties *)

\* The last event of the log of call c (a "none" event when the log is empty).
LastEv(c) == IF log[c] = <<>> THEN Ev("none", 0) ELSE log[c][Len(log[c])]

\* Every response call c has received so far is 202 and no send failed.
AllAccepted(c) ==
    /\ EventsOf(c, "fail") = <<>>
    /\ \A i \in 1..Len(Responses(c)) : Responses(c)[i] = 202

\* The log of a call whose five attempts were all answered 202.
AcceptedRunLog ==
    << Ev("send", 0), Ev("resp", 202), Ev("sleep", 200), Ev("woke", 0),
       Ev("send", 1), Ev("resp", 202), Ev("sleep", 400), Ev("woke", 0),
       Ev("send", 2), Ev("resp", 202), Ev("sleep", 800), Ev("woke", 0),
       Ev("send", 3), Ev("resp", 202), Ev("sleep", 1600), Ev("woke", 0),
       Ev("send", 4), Ev("resp", 202) >>

\* C1: while every attempt of a call is answered 202, the call never makes
\* more than 5 attempts and its log is a prefix of: send, 202, sleep 200,
\* send, 202, sleep 400, send, 202, sleep 800, send, 202, sleep 1600, send,
\* 202; once the fifth 202 has arrived the call is over, it has made exactly
\* 5 attempts and its only outcome is the max-retries error with count 4.
C1_AlwaysAccepted ==
    \A c \in Calls :
        AllAccepted(c) =>
            /\ Attempts(c) <= 5
            /\ Len(log[c]) <= Len(AcceptedRunLog)
            /\ log[c] = SubSeq(AcceptedRunLog, 1, Len(log[c]))
            /\ Len(Responses(c)) = 5 =>
                  /\ pc[c] = "done"
                  /\ Attempts(c) = 5
                  /\ Sleeps(c) = <<200, 400, 800, 1600>>
                  /\ outcome[c] = << [kind |-> "MaxRetryError", retries |-> 4] >>
            /\ pc[c] = "done" => Len(Responses(c)) = 5

\* C1 witness: a call that ended after five 202 responses.
C1_Witness ==
    \E c \in Calls :
        /\ pc[c] = "done"
        /\ Responses(c) = <<202, 202, 202, 202, 202>>

\* C2: a call whose first attempt is answered with a 4xx or 5xx status is
\* over at once: one attempt, no sleep, and the only outcome is the
\* HttpError made from that response.
C2_TerminalStatusFirst ==
    \A c \in Calls :
        (Len(log[c]) >= 2 /\ log[c][2].ev = "resp"
           /\ log[c][2].arg >= 400 /\ log[c][2].arg <= 599) =>
            /\ pc[c] = "done"
            /\ Attempts(c) = 1
            /\ Sleeps(c) = <<>>
            /\ log[c] = << Ev("send", 0), Ev("resp", log[c][2].arg) >>
            /\ Len(outcome[c]) = 1
            /\ outcome[c][1].kind = "HttpError"
            /\ outcome[c][1].status = log[c][2].arg

\* C2 witness: a call whose first attempt was answered 500.
C2_Witness ==
    \E c \in Calls : log[c] = << Ev("send", 0), Ev("resp", 500) >>

\* C3: a send that fails is the last thing a call does: the failure is the
\* last event of the log, so no attempt and no sleep follow it, the call is
\* over, and its only outcome is the HttpError of that send, not the
\* max-retries error; the attempts made are the 202 answers plus one.
C3_SendFailureEndsCall ==
    \A c \in Calls :
        EventsOf(c, "fail") # <<>> =>
            /\ Len(EventsOf(c, "fail")) = 1
            /\ LastEv(c).ev = "fail"
            /\ pc[c] = "done"
            /\ Attempts(c) = Len(Responses(c)) + 1
            /\ Len(Sleeps(c)) = Len(Responses(c))
            /\ Len(outcome[c]) = 1
            /\ outcome[c][1].kind = "HttpError"
            /\ outcome[c][1].cause = "send"

\* C3 witness: a send failed after two attempts had been answered 202.
C3_Witness ==
    \E c \in Calls :
        /\ Responses(c) = <<202, 202>>
        /\ LastEv(c).ev = "fail"
        /\ pc[c] = "done"

\* execute_request of call c has read the body of the response.
BodyWasRead(c) == entry[c] = "execute_request" /\ response_text[c] # NoText

\* C4: when the body read by execute_request is no target value but is an
\* error envelope, the call is over and its only outcome is the API error
\* made from that envelope, not the unexpected-response error.
C4_EnvelopeGivesApiError ==
    \A c \in Calls :
        (BodyWasRead(c) /\ response_text[c] \notin TargetBodies
           /\ response_text[c] \in EnvelopeBodies) =>
            /\ pc[c] = "done"
            /\ Len(outcome[c]) = 1
            /\ outcome[c][1].kind = "ApiError"
            /\ outcome[c][1].envelope = [kind |-> "ApiXmlErrors", from |-> response_text[c]]
            /\ outcome[c][1].kind # "UnexpectedResponseError"

\* C4 witness: execute_request read a body that is only an error envelope,
\* from a 200 response.
C4_Witness ==
    \E c \in Calls :
        /\ BodyWasRead(c)
        /\ response_text[c] = "errors_xml"
        /\ response[c].status = 200

\* C5: when the body read by execute_request is neither a target value nor
\* an error envelope, the call is over and its only outcome is the
\* unexpected-response error that carries the error of the target decode,
\* not that of the envelope decode.
C5_NeitherGivesTargetDiagnostic ==
    \A c \in Calls :
        (BodyWasRead(c) /\ response_text[c] \notin TargetBodies
           /\ response_text[c] \notin EnvelopeBodies) =>
            /\ pc[c] = "done"
            /\ Len(outcome[c]) = 1
            /\ outcome[c][1].kind = "UnexpectedResponseError"
            /\ outcome[c][1].diag.decoder = "target"
            /\ outcome[c][1].diag.text = response_text[c]

\* C5 witness: execute_request read a body of neither shape.
C5_Witness ==
    \E c \in Calls :
        /\ BodyWasRead(c)
        /\ response_text[c] = "hello there"
        /\ decodes[c] = <<"target", "ApiXmlErrors">>

\* C6: when the body read by execute_request is a target value, also one
\* that is an error envelope as well, the call is over, its only outcome is
\* the decoded value, and the only decode made is the target decode.
C6_TargetDecodedOnce ==
    \A c \in Calls :
        (BodyWasRead(c) /\ response_text[c] \in TargetBodies) =>
            /\ pc[c] = "done"
            /\ outcome[c] = << [kind |-> "Typed", from |-> response_text[c]] >>
            /\ decodes[c] = <<"target">>

\* C6 witness: execute_request read a body that is a target value and an
\* error envelope.
C6_Witness ==
    \E c \in Calls :
        /\ BodyWasRead(c)
        /\ response_text[c] = "lenient_xml"
        /\ pc[c] = "done"

\* The outcome kinds each entry point can return: the result and the
\* classified errors.
OutcomeKinds(fn) ==
    IF fn = "execute_request"
    THEN {"Typed", "HttpError", "MaxRetryError", "UnexpectedResponseError", "ApiError"}
    ELSE {"Response", "HttpError", "MaxRetryError"}

\* C7: a call never ends without an outcome (it does not panic), never has
\* more than one outcome, has exactly one when it is over and none before,
\* and the outcome is the result or one of the classified errors
\* HttpError, MaxRetryError, UnexpectedResponseError, ApiError.
C7_ExactlyOneClassifiedOutcome ==
    \A c \in Calls :
        /\ pc[c] \in {"idle", "sending", "sleeping", "reading", "done"}
        /\ Len(outcome[c]) <= 1
        /\ (pc[c] = "done") <=> (Len(outcome[c]) = 1)
        /\ \A i \in 1..Len(outcome[c]) : outcome[c][i].kind \in OutcomeKinds(entry[c])

\* C7 witness: an execute_request call that ended with an error after a retry.
C7_Witness ==
    \E c \in Calls :
        /\ entry[c] = "execute_request"
        /\ pc[c] = "done"
        /\ Attempts(c) = 2
        /\ Len(outcome[c]) = 1
        /\ outcome[c][1].kind = "HttpError"

\* The number of 202 responses call c has received.
AcceptedCount(c) == Len(SelectSeq(Responses(c), LAMBDA s : s = 202))

\* The outcome a send_request call must have by its own last event alone.
OwnOutcome(c) ==
    LET last == LastEv(c)
        n == Attempts(c) - 1
    IN  IF last.ev = "fail"
        THEN [kind |-> "HttpError", cause |-> "send", attempt |-> n, status |-> 0]
        ELSE IF last.arg = 202
        THEN [kind |-> "MaxRetryError", retries |-> 4]
        ELSE IF last.arg >= 400 /\ last.arg <= 599
        THEN [kind |-> "HttpError", cause |-> "status", attempt |-> n, status |-> last.arg]
        ELSE [kind |-> "Response", attempt |-> n, status |-> last.arg]

\* C8: with several calls interleaved on one API object, each call's retry
\* counter, delays, attempts and outcome follow from its own responses
\* alone: the counter is the number of its own 202 responses that were
\* followed by a sleep, its delays are 200, 400, 800, 1600 from the start,
\* it sends at most 5 requests, and its outcome is set by its own last
\* event; two calls with the same log are in the same state.
C8_CallsAreIsolated ==
    /\ \A c \in Calls :
          LET slept == IF AcceptedCount(c) < 4 THEN AcceptedCount(c) ELSE 4 IN
          pc[c] # "idle" =>
            /\ Sleeps(c) = SubSeq(<<200, 400, 800, 1600>>, 1, slept)
            /\ retries[c] = slept
            /\ Attempts(c) = IF pc[c] = "sleeping" THEN slept ELSE slept + 1
            /\ Attempts(c) <= 5
            /\ pc[c] = "done" => outcome[c] = << OwnOutcome(c) >>
            /\ pc[c] # "done" => outcome[c] = <<>>
    /\ \A c, d \in Calls :
          log[c] = log[d] =>
            /\ pc[c] = pc[d]
            /\ retries[c] = retries[d]
            /\ outcome[c] = outcome[d]

\* C8 witness: two calls in their backoff at the same time, one after two
\* 202 responses and the other after one.
C8_Witness ==
    \E c, d \in Calls :
        /\ c # d
        /\ pc[c] = "sleeping" /\ Responses(c) = <<202, 202>>
        /\ pc[d] = "sleeping" /\ Responses(d) = <<202>>

\* C9: every request after the first follows a 202 response (and the sleep
\* after it), and nothing is sent or slept after a response of another
\* status, a failed send, a read body (decoded to a value, an API error or
\* an unexpected-response error) or a failed read.
C9_OnlyAcceptedRetries ==
    \A c \in Calls :
        \A i \in 1..Len(log[c]) :
            /\ (log[c][i].ev = "send" /\ i > 1) =>
                  /\ i > 4
                  /\ log[c][i - 3] = Ev("resp", 202)
                  /\ log[c][i - 2].ev = "sleep"
                  /\ log[c][i - 1].ev = "woke"
            /\ (\/ log[c][i].ev \in {"fail", "text", "textfail"}
                \/ log[c][i].ev = "resp" /\ log[c][i].arg # 202) =>
                  \A j \in (i + 1)..Len(log[c]) : log[c][j].ev \notin {"send", "sleep", "woke"}

\* C9 witness: a call that retried once after a 202 and ended with the
\* unexpected-response error.
C9_Witness ==
    \E c \in Calls :
        /\ Responses(c) = <<202, 200>>
        /\ Len(outcome[c]) = 1
        /\ outcome[c][1].kind = "UnexpectedResponseError"

\* The index of the attempt that the event at position i of the log of
\* call c belongs to.
AttemptAt(c, i) ==
    Len(SelectSeq(SubSeq(log[c], 1, i), LAMBDA e : e.ev = "send")) - 1

\* C10: a response whose status is neither 202 nor in 400..599 ends
\* send_request with success: nothing is sent or slept after it, and
\* send_request returns that response (the one of that attempt, with that
\* status) to its caller, which is the test or execute_request.
C10_OtherStatusIsSuccess ==
    \A c \in Calls :
        \A i \in 1..Len(log[c]) :
            (/\ log[c][i].ev = "resp"
             /\ log[c][i].arg # 202
             /\ ~(log[c][i].arg >= 400 /\ log[c][i].arg <= 599)) =>
                LET got == [attempt |-> AttemptAt(c, i), status |-> log[c][i].arg] IN
                /\ \A j \in (i + 1)..Len(log[c]) : log[c][j].ev \notin {"send", "sleep", "woke"}
                /\ entry[c] = "send_request" =>
                      /\ pc[c] = "done"
                      /\ outcome[c] = << [kind |-> "Response", attempt |-> got.attempt,
                                           status |-> got.status] >>
                /\ entry[c] = "execute_request" =>
                      /\ pc[c] \in {"reading", "done"}
                      /\ response[c] = got
                      /\ pc[c] = "reading" => outcome[c] = <<>>
                      /\ pc[c] = "done" => LastEv(c).ev \in {"text", "textfail"}

\* C10 witness: send_request returned a 304 response received after two 202s.
C10_Witness ==
    \E c \in Calls :
        /\ entry[c] = "send_request"
        /\ Responses(c) = <<202, 202, 304>>
        /\ outcome[c] = << [kind |-> "Response", attempt |-> 2, status |-> 304] >>

\* Call c ended with the max-retries error.
EndedExhausted(c) ==
    /\ pc[c] = "done"
    /\ Len(outcome[c]) = 1
    /\ outcome[c][1].kind = "MaxRetryError"

\* C11 as stated: the max-retries error carries the number of attempts the
\* call performed.
C11_CarriesAttemptCount ==
    \A c \in Calls : EndedExhausted(c) => outcome[c][1].retries = Attempts(c)

\* C11 as amended: the max-retries error carries the number of retries of
\* the call, which is 4: the attempts performed (5) minus one, and the
\* number of sleeps of the call.
C11_CarriesRetryCount ==
    \A c \in Calls :
        EndedExhausted(c) =>
            /\ outcome[c][1].retries = 4
            /\ outcome[c][1].retries = Attempts(c) - 1
            /\ outcome[c][1].retries = Len(Sleeps(c))
            /\ Attempts(c) = 5

\* C11 witness: an execute_request call that ended with the max-retries error.
C11_Witness ==
    \E c \in Calls : EndedExhausted(c) /\ entry[c] = "execute_request"

\* send_request of call c has returned, to the test or to execute_request.
SendRequestReturned(c) == pc[c] \in {"reading", "done"}

\* C12: when every send and every sleep completes, a call that is waiting
\* for a send or in a sleep gets to the return of send_request, whatever
\* the responses are; and no call ever makes more than 5 attempts or more
\* than 4 sleeps.
C12_SendRequestTerminates ==
    /\ [](\A c \in Calls : Attempts(c) <= 5 /\ Len(Sleeps(c)) <= 4)
    /\ \A c \in Calls : (pc[c] \in {"sending", "sleeping"}) ~> SendRequestReturned(c)

\* C12 witness: send_request returned after 5 attempts and 4 sleeps, the
\* last attempt answered 202.
C12_Witness ==
    \E c \in Calls :
        /\ SendRequestReturned(c)
        /\ Attempts(c) = 5
        /\ Len(Sleeps(c)) = 4
        /\ LastEv(c) = Ev("resp", 202)

\* C13: the request handed to a call stays the GET request that
\* build_request made (base URL, endpoint, ordered query, no body), and
\* every request the call has sent equals it: same URL, same query
\* parameters in the same order, so attempt n sends what attempt 0 sent.
C13_RequestReissuedUnchanged ==
    \A c \in Calls :
        pc[c] # "idle" =>
            /\ \E ep \in Endpoints, q \in Queries :
                  request[c] = [url |-> "https://boardgamegeek.com/xmlapi2/" \o ep,
                                query |-> q, body |-> "none"]
            /\ \A i \in 1..Len(wire[c]) :
                  /\ wire[c][i] = request[c]
                  /\ wire[c][i].url = wire[c][1].url
                  /\ wire[c][i].query = wire[c][1].query

\* C13 witness: a call with query parameters that has sent its request
\* three times.
C13_Witness ==
    \E c \in Calls :
        /\ Len(wire[c]) = 3
        /\ request[c].query = << <<"username", "someone">> >>
        /\ request[c].url = "https://boardgamegeek.com/xmlapi2/collection"

\* C14: once a call has been dropped, in a send, in a sleep or in the read
\* of the body, the drop is the last event of its log for good: no attempt,
\* no sleep and no wake-up follow it, the call stays dropped and it has no
\* outcome, neither a result nor an error.
C14_DroppedCallStops ==
    \A c \in Calls :
        EventsOf(c, "drop") # <<>> =>
            /\ Len(EventsOf(c, "drop")) = 1
            /\ LastEv(c).ev = "drop"
            /\ log[c][Len(log[c]) - 1].ev \in {"send", "sleep", "resp"}
            /\ pc[c] = "dropped"
            /\ outcome[c] = <<>>
            /\ decodes[c] = <<>>
            /\ Attempts(c) = Len(Sleeps(c)) + (IF log[c][Len(log[c]) - 1].ev = "sleep" THEN 0 ELSE 1)

\* C14 witness: a call dropped during its second sleep.
C14_Witness ==
    \E c \in Calls :
        log[c] = << Ev("send", 0), Ev("resp", 202), Ev("sleep", 200), Ev("woke", 0),
                    Ev("send", 1), Ev("resp", 202), Ev("sleep", 400), Ev("drop", 0) >>

\* The number of from_str calls of call c for the shape `shape`.
DecodeCount(c, shape) == Len(SelectSeq(decodes[c], LAMBDA d : d = shape))

\* C15: a call decodes only a body it has read: the target decode is made
\* exactly once, first, when the body was read, and never otherwise; when
\* send_request returned an error execute_request returns that same error
\* and decodes nothing; the envelope decode is made at most once, and only
\* after the target decode of a body that is no target value.
C15_DecodeOncePerBody ==
    \A c \in Calls :
        /\ response_text[c] # NoText =>
              /\ entry[c] = "execute_request"
              /\ DecodeCount(c, "target") = 1
              /\ decodes[c][1] = "target"
        /\ response_text[c] = NoText => decodes[c] = <<>>
        /\ (entry[c] = "execute_request" /\ pc[c] = "done"
              /\ LastEv(c).ev \in {"resp", "fail"}) =>
              /\ decodes[c] = <<>>
              /\ outcome[c] = << OwnOutcome(c) >>
              /\ outcome[c][1].kind \in {"HttpError", "MaxRetryError"}
        /\ DecodeCount(c, "ApiXmlErrors") <= 1
        /\ DecodeCount(c, "ApiXmlErrors") = 1 =>
              /\ decodes[c] = <<"target", "ApiXmlErrors">>
              /\ response_text[c] \notin TargetBodies

\* C15 witness: execute_request made both decodes, once each, on the body
\* of a 200 response that came after a 202.
C15_Witness ==
    \E c \in Calls :
        /\ Responses(c) = <<202, 200>>
        /\ response_text[c] = "errors_xml"
        /\ decodes[c] = <<"target", "ApiXmlErrors">>

\* C16: in the log of a call, a 202 response to attempt n, n in 0..3, is
\* followed at once by a sleep of 200, 400, 800, 1600 ms for n = 0, 1, 2, 3,
\* whatever comes later in the log; a 202 response to attempt 4 is the last
\* event of the log, so no sleep follows it.
C16_DelayOfAttempt ==
    \A c \in Calls :
        \A i \in 1..Len(log[c]) :
            log[c][i] = Ev("resp", 202) =>
                LET n == AttemptAt(c, i) IN
                /\ n \in 0..4
                /\ n <= 3 =>
                      /\ i < Len(log[c])
                      /\ log[c][i + 1] = Ev("sleep", <<200, 400, 800, 1600>>[n + 1])
                /\ n = 4 =>
                      /\ i = Len(log[c])
                      /\ Len(Sleeps(c)) = 4

\* C16 witness: a call whose attempts 0..3 were answered 202 and whose
\* attempt 4 was answered 200.
C16_Witness ==
    \E c \in Calls :
        /\ Responses(c) = <<202, 202, 202, 202, 200>>
        /\ Sleeps(c) = <<200, 400, 800, 1600>>

RECURSIVE SumSeq(_)
\* The sum of a sequence of numbers.
SumSeq(s) == IF s = <<>> THEN 0 ELSE s[1] + SumSeq(Tail(s))

\* The event at position i of the log of call c ends send_request for a
\* reason other than the retry bound: a failed send or a status other than 202.
EndsWithoutAccepted(c, i) ==
    \/ log[c][i].ev = "fail"
    \/ log[c][i].ev = "resp" /\ log[c][i].arg # 202

\* C17: when attempt k of a call is the first not answered 202 (a failed
\* send or another status, after k answers of 202, k in 0..4), the call
\* has made exactly k + 1 attempts, has slept 200 * (2^k - 1) ms in all
\* (0, 200, 600, 1400, 3000), and send_request has returned what attempt k
\* decides: the HttpError of the failed send or of the 4xx/5xx status, or
\* the response of attempt k; the max-retries error is not an outcome,
\* also for k = 4.
C17_FirstNonAcceptedDecides ==
    \A c \in Calls :
        \A i \in 1..Len(log[c]) :
            EndsWithoutAccepted(c, i) =>
                LET k == AttemptAt(c, i)
                    s == log[c][i].arg
                    isErr == log[c][i].ev = "fail" \/ (s >= 400 /\ s <= 599)
                IN
                /\ k \in 0..4
                /\ AcceptedCount(c) = k
                /\ \A j \in 1..k : Responses(c)[j] = 202
                /\ Attempts(c) = k + 1
                /\ SumSeq(Sleeps(c)) = <<0, 200, 600, 1400, 3000>>[k + 1]
                /\ SendRequestReturned(c)
                /\ \A o \in 1..Len(outcome[c]) : outcome[c][o].kind # "MaxRetryError"
                /\ isErr =>
                      /\ pc[c] = "done"
                      /\ outcome[c] =
                            << [kind |-> "HttpError",
                                cause |-> IF log[c][i].ev = "fail" THEN "send" ELSE "status",
                                attempt |-> k,
                                status |-> s] >>
                /\ (~isErr /\ entry[c] = "send_request") =>
                      outcome[c] = << [kind |-> "Response", attempt |-> k, status |-> s] >>
                /\ (~isErr /\ entry[c] = "execute_request") =>
                      response[c] = [attempt |-> k, status |-> s]

\* C17 witness: the fifth attempt, after four answers of 202, was answered
\* 200 and send_request returned that response.
C17_Witness ==
    \E c \in Calls :
        /\ entry[c] = "send_request"
        /\ Responses(c) = <<202, 202, 202, 202, 200>>
        /\ SumSeq(Sleeps(c)) = 3000
        /\ outcome[c] = << [kind |-> "Response", attempt |-> 4, status |-> 200] >>

\* The number of sleeps of call c that have completed.
CompletedSleeps(c) == Len(EventsOf(c, "woke"))

\* The max-retries error is an outcome of call c only after a fifth
\* attempt answered 202 with the counter at 4.
ExhaustedOnlyAtBound(c) ==
    \A o \in 1..Len(outcome[c]) :
        outcome[c][o].kind = "MaxRetryError" =>
            /\ retries[c] = 4
            /\ Attempts(c) = 5
            /\ LastEv(c) = Ev("resp", 202)

\* C18 as stated: in every state of a call the counter is in 0..4, the
\* attempts sent are at most retries + 1, the completed sleeps equal
\* retries, and the max-retries error comes only at retries = 4 after the
\* fifth 202.
C18_CompletedSleepsEqualRetries ==
    \A c \in Calls :
        pc[c] # "idle" =>
            /\ retries[c] \in 0..4
            /\ Attempts(c) <= retries[c] + 1
            /\ CompletedSleeps(c) = retries[c]
            /\ ExhaustedOnlyAtBound(c)

\* C18 as amended: in every state of a call the counter is in 0..4, the
\* attempts sent are at most retries + 1, the sleeps started equal
\* retries, the sleeps completed equal retries except during a sleep, when
\* the counter is already one ahead, and the max-retries error comes only
\* at retries = 4 after the fifth 202.
C18_StartedSleepsEqualRetries ==
    \A c \in Calls :
        pc[c] # "idle" =>
            /\ retries[c] \in 0..4
            /\ Attempts(c) <= retries[c] + 1
            /\ Len(Sleeps(c)) = retries[c]
            /\ CompletedSleeps(c) = IF pc[c] = "sleeping" THEN retries[c] - 1 ELSE retries[c]
            /\ ExhaustedOnlyAtBound(c)

\* C18 witness: a call in its third sleep, and so with retries = 3 and two
\* sleeps completed.
C18_Witness ==
    \E c \in Calls :
        /\ pc[c] = "sleeping"
        /\ retries[c] = 3
        /\ CompletedSleeps(c) = 2
        /\ Attempts(c) = 3

\* C19: in the log of a call sends and sleeps alternate, starting with a
\* send: the first event is the send of attempt 0; every sleep comes right
\* after a 202 response, and what the call does after a sleep is to end it
\* and, at once, to send the next attempt (a call dropped by its caller
\* during the sleep does nothing more); between two sends there is exactly
\* one sleep and between two sleeps exactly one send; no sleep comes after
\* the response or the failure that ends send_request.
C19_SendsAndSleepsAlternate ==
    \A c \in Calls :
        /\ log[c] # <<>> => log[c][1] = Ev("send", 0)
        /\ Attempts(c) = Len(EventsOf(c, "send"))
        /\ Len(Sleeps(c)) \in {Attempts(c) - 1, Attempts(c)}
        /\ \A i \in 1..Len(log[c]) :
              /\ log[c][i].ev = "sleep" =>
                    /\ i > 2
                    /\ log[c][i - 1] = Ev("resp", 202)
                    /\ log[c][i - 2].ev = "send"
                    /\ i = Len(log[c]) => pc[c] = "sleeping"
                    /\ i < Len(log[c]) =>
                          \/ /\ log[c][i + 1].ev = "drop"
                             /\ i + 1 = Len(log[c])
                          \/ /\ i + 2 <= Len(log[c])
                             /\ log[c][i + 1].ev = "woke"
                             /\ log[c][i + 2] = Ev("send", AttemptAt(c, i) + 1)
              /\ (log[c][i].ev = "send" /\ i > 1) =>
                    /\ i > 4
                    /\ log[c][i - 2].ev = "sleep"
                    /\ log[c][i - 4].ev = "send"
              /\ EndsWithoutAccepted(c, i) =>
                    \A j \in (i + 1)..Len(log[c]) : log[c][j].ev \notin {"sleep", "woke", "send"}
        /\ (SendRequestReturned(c) /\ LastEv(c) = Ev("resp", 202)) =>
              /\ Attempts(c) = 5
              /\ Len(Sleeps(c)) = 4

\* C19 witness: a call that sent three times and slept twice in between,
\* and whose body was then read.
C19_Witness ==
    \E c \in Calls :
        log[c] = << Ev("send", 0), Ev("resp", 202), Ev("sleep", 200), Ev("woke", 0),
                    Ev("send", 1), Ev("resp", 202), Ev("sleep", 400), Ev("woke", 0),
                    Ev("send", 2), Ev("resp", 204), Ev("text", 0) >>

==========================================================================
